---- MODULE Spec2Model ----
(***************************************************************************)
(* Model of src/rate-limit-wrapper.js: the rate limiting wrapper that sits *)
(* in front of the WASM worker.  Every request runs fetch(), which awaits  *)
(* checkRateLimit() (policy lookup, binding lookup, key extraction, the    *)
(* limiter call) and then answers 429 or forwards to the backend handler;  *)
(* scheduled() hands every cron event to the backend handler.              *)
(*                                                                         *)
(* JavaScript strings that the code transforms (the e-mail value, the key) *)
(* are sequences of one-character strings; `null`/`undefined` is the empty *)
(* sequence <<>> and a present value v is <<v>>.                           *)
(***************************************************************************)
EXTENDS Integers, Sequences, FiniteSets, TLC

\* ------------------------------------------------------------------ bounds
NumReqs == 2      \* requests the isolate handles side by side
MaxLen == 2       \* longest e-mail / username value in a request body
MaxShort == 1     \* longest username next to an e-mail field in a JSON body
MaxScheduled == 2 \* scheduled events delivered to the worker

Reqs == 1..NumReqs

\* ------------------------------------------------------- strings and keys
Alphabet == {"A", "a", "@"}

StringsUpTo(n) == UNION {[1..k -> Alphabet] : k \in 1..n}

ToLowerChar(c) == IF c = "A" THEN "a" ELSE c

toLowerCaseKeep(s) == s

\* String.prototype.toLowerCase
toLowerCase(s) == [i \in 1..Len(s) |-> ToLowerChar(s[i])]

EmailPrefix == <<"e", "m", "a", "i", "l", ":">>
IpPrefix == <<"i", "p", ":">>
Unknown == <<"u", "n", "k", "n", "o", "w", "n">>

\* ---------------------------------------------------------- policy table
TokenPath == "/identity/connect/token"
RegisterPath == "/api/accounts/register"
PreloginPath == "/api/accounts/prelogin"

RATE_LIMITED_ENDPOINTS_RegisterByEmail ==
  [p \in {TokenPath, RegisterPath, PreloginPath} |->
     [limiter |-> "LOGIN_RATE_LIMITER",
      keyType |-> IF p = PreloginPath THEN "ip" ELSE "email"]]

RATE_LIMITED_ENDPOINTS ==
  [p \in {TokenPath, RegisterPath, PreloginPath} |->
     [limiter |-> "LOGIN_RATE_LIMITER",
      keyType |-> IF p = TokenPath THEN "email" ELSE "ip"]]

\* paths a client may ask for: the three protected ones, an unprotected one,
\* and two that differ from a protected one by letter case or a trailing slash
Paths == {TokenPath, RegisterPath, PreloginPath, "/api/sync",
          "/Identity/Connect/Token", "/identity/connect/token/"}

PathLower(p) == IF p = "/Identity/Connect/Token" THEN TokenPath ELSE p

LookupAnyCase(pathname) ==
  IF PathLower(pathname) \in DOMAIN RATE_LIMITED_ENDPOINTS
  THEN <<RATE_LIMITED_ENDPOINTS[PathLower(pathname)]>> ELSE <<>>

\* RATE_LIMITED_ENDPOINTS[pathname]: <<config>>, or <<>> for undefined
Lookup(pathname) ==
  IF pathname \in DOMAIN RATE_LIMITED_ENDPOINTS
  THEN <<RATE_LIMITED_ENDPOINTS[pathname]>> ELSE <<>>

\* ------------------------------------------------------- request contents
\* a value found in a body field: undefined, a string, or a (truthy) number
Undef == [t |-> "undefined", s |-> <<>>]
Str(s) == [t |-> "string", s |-> s]
Num == [t |-> "number", s |-> <<>>]

TruthyDefined(v) == v.t # "undefined"

Truthy(v) == v.t = "number" \/ (v.t = "string" /\ v.s # <<>>)

\* a || b
Or(a, b) == IF Truthy(a) THEN a ELSE b

FieldValues == {Undef, Num, Str(<<>>)} \cup {Str(s) : s \in StringsUpTo(MaxLen)}
ShortValues == {Undef, Num, Str(<<>>)} \cup {Str(s) : s \in StringsUpTo(MaxShort)}

\* The body as sent.  syntax "form": url-encoded fields; "json": a JSON
\* document (null, a primitive, or an object with optional email/username);
\* "text": neither; "broken": the body stream fails when read.
Body(syntax, shape, email, username) ==
  [syntax |-> syntax, shape |-> shape, email |-> email, username |-> username]

FormBodies ==
  {Body("form", "fields", Undef, u) : u \in FieldValues \ {Num}}
JsonBodies ==
  {Body("json", "null", Undef, Undef), Body("json", "primitive", Undef, Undef)}
  \cup {Body("json", "object", e, Undef) : e \in FieldValues}
  \cup {Body("json", "object", e, u) : e \in {Undef, Num, Str(<<>>)}, u \in FieldValues}
  \cup {Body("json", "object", e, u) : e \in FieldValues, u \in ShortValues}
OtherBodies ==
  {Body("text", "none", Undef, Undef), Body("broken", "none", Undef, Undef)}
Bodies == FormBodies \cup JsonBodies \cup OtherBodies

FormType == "application/x-www-form-urlencoded"
JsonType == "application/json"

\* content-type header values, as the list of their tokens
ContentTypes ==
  {<<>>, <<<<FormType>>>>, <<<<JsonType>>>>, <<<<JsonType, "charset=utf-8">>>>,
   <<<<"text/plain">>>>, <<<<"Application/JSON">>>>, <<<<>>>>}

IpHeaders == {<<>>, <<<<>>>>, <<<<"1", ".", "2">>>>}

Request(path, ctype, ip, body) ==
  [path |-> path,
   headers |-> [ct |-> ctype, ip |-> ip],
   body |-> body]

AllRequests ==
  {Request(p, c, i, b) : p \in Paths, c \in ContentTypes, i \in IpHeaders, b \in Bodies}

NoRequest == Request("", <<>>, <<>>, Body("text", "none", Undef, Undef))

\* the hand-picked requests of the concurrent specification
SampleRequests ==
  {Request(TokenPath, <<<<JsonType>>>>, <<<<"1", ".", "2">>>>,
           Body("json", "object", Str(<<"A", "@">>), Undef)),
   Request(TokenPath, <<<<FormType>>>>, <<>>,
           Body("form", "fields", Undef, Str(<<"a", "@">>))),
   Request(TokenPath, <<<<JsonType>>>>, <<<<"1", ".", "2">>>>,
           Body("text", "none", Undef, Undef)),
   Request(RegisterPath, <<>>, <<<<"1", ".", "2">>>>,
           Body("json", "object", Str(<<"A", "@">>), Undef)),
   Request(PreloginPath, <<<<JsonType>>>>, <<>>,
           Body("json", "object", Str(<<"A", "@">>), Undef)),
   Request("/api/sync", <<<<JsonType>>>>, <<<<"1", ".", "2">>>>,
           Body("json", "object", Str(<<"A", "@">>), Undef))}

\* ----------------------------------------------------------- environment
\* env: the names that are bound in the environment object
Envs == {{}, {"LOGIN_RATE_LIMITER"}}

\* what limiter.limit({key}) may do: reject/throw, resolve with undefined,
\* resolve with an object whose success is missing, true or false
Outcome(t, hasObj, success) == [t |-> t, hasObj |-> hasObj, success |-> success]
Rejects == Outcome("reject", FALSE, <<>>)
ResolvesUndefined == Outcome("resolve", FALSE, <<>>)
ResolvesObject(success) == Outcome("resolve", TRUE, success)
LimitOutcomes ==
  {Rejects, ResolvesUndefined, ResolvesObject(<<>>),
   ResolvesObject(<<TRUE>>), ResolvesObject(<<FALSE>>)}

\* responses of the backend handler
BackendResponse(status) ==
  [status |-> status, contentType |-> "application/json", retryAfter |-> "",
   body |-> <<"backend">>]
BackendResponses == {BackendResponse(200), BackendResponse(400)}

\* ------------------------------------------------------------ the program
\* request.headers.get(name) || dflt
GetOr(request, name, dflt) ==
  LET h == request.headers[name]
  IN IF h # <<>> /\ h[1] # <<>> THEN h[1] ELSE dflt

\* contentType.includes(needle)
includes(contentType, needle) ==
  \E i \in 1..Len(contentType) : contentType[i] = needle

\* await clonedRequest.formData(), then formData.get("username")
formData(body) ==
  [throws |-> body.syntax = "broken",
   username |-> IF body.syntax = "form" THEN body.username ELSE Undef]

\* await clonedRequest.json()
json(body) ==
  [throws |-> body.syntax # "json",
   isNull |-> body.shape = "null",
   email |-> body.email,
   username |-> body.username]

\* the fall back of extractRateLimitKey (lines 66-68)
IpKey(request) == IpPrefix \o GetOr(request, "ip", Unknown)

\* which request object's body the extraction reads
BodySourceOriginal == "original"

BodySource == "clone"

Found(value) == [found |-> TRUE, threw |-> FALSE, value |-> value]
NotFound == [found |-> FALSE, threw |-> FALSE, value |-> <<>>]
Threw == [found |-> FALSE, threw |-> TRUE, value |-> <<>>]

\* `email:${v.toLowerCase()}` for a truthy v: a TypeError unless v is a string
Lowered(v) == IF v.t = "string" THEN Found(toLowerCase(v.s)) ELSE Threw

\* body.email || body.username
JsonEmail(j) == Or(j.email, j.username)

\* the try block of extractRateLimitKey (lines 43-60)
EmailAttempt(request) ==
  LET contentType == GetOr(request, "ct", <<>>)
      f == formData(request.body)
      j == json(request.body)
  IN IF includes(contentType, FormType)
     THEN [read |-> "formData",
           out |-> IF f.throws THEN Threw
                   ELSE IF Truthy(f.username) THEN Lowered(f.username)
                   ELSE NotFound]
     ELSE IF includes(contentType, JsonType)
     THEN [read |-> "json",
           out |-> IF j.throws \/ j.isNull THEN Threw
                   ELSE IF Truthy(JsonEmail(j)) THEN Lowered(JsonEmail(j))
                   ELSE NotFound]
     ELSE [read |-> "none", out |-> NotFound]

\* extractRateLimitKey(request, keyType): the key, whether the catch block
\* warned, whether the request was cloned and which read it awaited
extractRateLimitKey(request, keyType) ==
  IF keyType = "email"
  THEN LET a == EmailAttempt(request)
       IN [key |-> IF a.out.found THEN EmailPrefix \o a.out.value
                   ELSE IpKey(request),
           warned |-> a.out.threw,
           cloned |-> TRUE,
           read |-> a.read]
  ELSE [key |-> IpKey(request), warned |-> FALSE, cloned |-> FALSE,
        read |-> "none"]

\* one console entry
Entry(level, msg, k, endpoint) ==
  [level |-> level, msg |-> msg, key |-> k, endpoint |-> endpoint]

DecisionLimiterName(limited, k, endpoint) ==
  [limited |-> limited, key |-> k, endpoint |-> "LOGIN_RATE_LIMITER"]

\* the decision object of checkRateLimit (lines 102-106)
Decision(limited, k, endpoint) ==
  [limited |-> limited, key |-> k, endpoint |-> endpoint]

Message == "Too many requests. Please try again later."

\* JSON.stringify(errorResponse) (lines 121-128, 132), as its tokens in order
ErrorBody ==
  <<"error", "too_many_requests",
    "error_description", Message,
    "ErrorModel", "Message", Message, "Object", "error">>

\* createRateLimitResponse: the response (lines 132-138)
RateLimitResponse ==
  [status |-> 429, contentType |-> "application/json", retryAfter |-> "60",
   body |-> ErrorBody]

createRateLimitResponseEcho(k, endpoint) ==
  [response |-> [RateLimitResponse EXCEPT !.body = @ \o <<"endpoint", endpoint>>],
   entries |-> <<Entry("warn", "rate limit exceeded", k, endpoint)>>]

createRateLimitResponseSilent(k, endpoint) ==
  [response |-> RateLimitResponse, entries |-> <<>>]

\* createRateLimitResponse(key, endpoint): the response it returns and the
\* console entries it writes (line 130)
createRateLimitResponse(k, endpoint) ==
  [response |-> RateLimitResponse,
   entries |-> <<Entry("warn", "rate limit exceeded", k, endpoint)>>]

\* rateLimitResult?.limited
OptLimited(res) == res # <<>> /\ res[1].limited

SuccessAsIs(o) == o.success = <<TRUE>>

\* !success, for the success read by `const { success } = ...`
NotSuccess(o) == o.success # <<TRUE>>

DestructureNever(o) == o.t = "reject"

\* `const { success } = await limiter.limit({ key })` throws: the call
\* rejected, or it resolved with undefined/null
DestructureThrows(o) == o.t = "reject" \/ ~o.hasObj

BoundAlways(e, name) == TRUE

\* env[name] is truthy
Bound(e, name) == name \in e

VARIABLES
  env,                \* the environment bindings
  wasmWorkerInstance, \* the module-level variable of line 142
  pc,                 \* where each request's fetch() is
  req,                \* the request object of each invocation
  cloned,             \* whether request.clone() was called
  bodyUsed,           \* bodyUsed of the original request and of its clone
  key,                \* the key extractRateLimitKey returned: <<key>>
  limitCalls,         \* the keys passed to limiter.limit for the request
  answer,             \* what the limiter call did: <<outcome>>
  result,             \* rateLimitResult: <<>> for null, <<decision>>
  backendCalls,       \* the requests handed to wasmWorker.fetch
  response,           \* what fetch() returned: <<response>>
  log,                \* console entries written for the request
  scheduledEvents,    \* the events scheduled() was invoked with
  scheduledCalls      \* the events handed to wasmWorker.scheduled

vars == <<env, wasmWorkerInstance, pc, req, cloned, bodyUsed, key,
          limitCalls, answer, result, backendCalls, response, log,
          scheduledEvents, scheduledCalls>>

Init ==
  /\ env \in Envs
  /\ wasmWorkerInstance = <<>>
  /\ pc = [r \in Reqs |-> "idle"]
  /\ req = [r \in Reqs |-> NoRequest]
  /\ cloned = [r \in Reqs |-> FALSE]
  /\ bodyUsed = [r \in Reqs |-> [original |-> FALSE, clone |-> FALSE]]
  /\ key = [r \in Reqs |-> <<>>]
  /\ limitCalls = [r \in Reqs |-> <<>>]
  /\ answer = [r \in Reqs |-> <<>>]
  /\ result = [r \in Reqs |-> <<>>]
  /\ backendCalls = [r \in Reqs |-> <<>>]
  /\ response = [r \in Reqs |-> <<>>]
  /\ log = [r \in Reqs |-> <<>>]
  /\ scheduledEvents = <<>>
  /\ scheduledCalls = <<>>

\* fetch with the key extraction started before the binding is looked up
fetchExtractFirst(r, requests) ==
  /\ pc[r] = "idle"
  /\ \E q \in requests :
     /\ req' = [req EXCEPT ![r] = q]
     /\ LET cfg == Lookup(q.path)
        IN IF cfg = <<>>
           THEN /\ pc' = [pc EXCEPT ![r] = "dispatch"]
                /\ UNCHANGED <<cloned, key, log>>
           ELSE LET x == extractRateLimitKey(q, cfg[1].keyType)
                IN /\ cloned' = [cloned EXCEPT ![r] = x.cloned]
                   /\ IF x.read # "none"
                      THEN /\ pc' = [pc EXCEPT ![r] = "readBody"]
                           /\ UNCHANGED <<key, log>>
                      ELSE IF ~Bound(env, cfg[1].limiter)
                      THEN /\ pc' = [pc EXCEPT ![r] = "dispatch"]
                           /\ log' = [log EXCEPT ![r] =
                                        Append(@, Entry("warn", "binding not found",
                                                        <<>>, ""))]
                           /\ UNCHANGED key
                      ELSE /\ pc' = [pc EXCEPT ![r] = "limit"]
                           /\ key' = [key EXCEPT ![r] = <<x.key>>]
                           /\ UNCHANGED log
  /\ UNCHANGED <<env, wasmWorkerInstance, scheduledEvents, scheduledCalls,
                 bodyUsed, limitCalls, answer,
                 result, backendCalls, response>>

\* fetch(request, env, ctx) up to the first point where checkRateLimit
\* suspends: policy lookup, binding lookup, and the synchronous part of
\* extractRateLimitKey
fetch(r, requests) ==
  /\ pc[r] = "idle"
  /\ \E q \in requests :
     /\ req' = [req EXCEPT ![r] = q]
     /\ LET cfg == Lookup(q.path)
        IN IF cfg = <<>>
           THEN /\ pc' = [pc EXCEPT ![r] = "dispatch"]
                /\ UNCHANGED <<cloned, key, log>>
           ELSE IF ~Bound(env, cfg[1].limiter)
           THEN /\ pc' = [pc EXCEPT ![r] = "dispatch"]
                /\ log' = [log EXCEPT ![r] =
                             Append(@, Entry("warn", "binding not found", <<>>, ""))]
                /\ UNCHANGED <<cloned, key>>
           ELSE LET x == extractRateLimitKey(q, cfg[1].keyType)
                IN /\ cloned' = [cloned EXCEPT ![r] = x.cloned]
                   /\ IF x.read # "none"
                      THEN /\ pc' = [pc EXCEPT ![r] = "readBody"]
                           /\ UNCHANGED <<key, log>>
                      ELSE /\ pc' = [pc EXCEPT ![r] = "limit"]
                           /\ key' = [key EXCEPT ![r] = <<x.key>>]
                           /\ UNCHANGED log
  /\ UNCHANGED <<env, wasmWorkerInstance, scheduledEvents, scheduledCalls,
                 bodyUsed, limitCalls, answer,
                 result, backendCalls, response>>

\* the awaited formData()/json() settles and extractRateLimitKey finishes
BodyRead(r) ==
  /\ pc[r] = "readBody"
  /\ LET x == extractRateLimitKey(req[r], Lookup(req[r].path)[1].keyType)
     IN /\ key' = [key EXCEPT ![r] = <<x.key>>]
        /\ log' = [log EXCEPT ![r] =
                     IF x.warned
                     THEN Append(@, Entry("warn", "extract failed", <<>>, ""))
                     ELSE @]
  /\ bodyUsed' = [bodyUsed EXCEPT ![r][BodySource] = TRUE]
  /\ pc' = [pc EXCEPT ![r] = "limit"]
  /\ UNCHANGED <<env, wasmWorkerInstance, scheduledEvents, scheduledCalls,
                 req, cloned, limitCalls, answer,
                 result, backendCalls, response>>

\* LimitCall with a cache of earlier answers, keyed by the rate limit key
LimitCallCached(r) ==
  /\ pc[r] = "limit"
  /\ IF \E c \in Reqs : c # r /\ key[c] = key[r] /\ answer[c] # <<>>
     THEN LET c == CHOOSE c \in Reqs :
                     c # r /\ key[c] = key[r] /\ answer[c] # <<>>
          IN /\ answer' = [answer EXCEPT ![r] = answer[c]]
             /\ result' = [result EXCEPT ![r] = result[c]]
             /\ pc' = [pc EXCEPT ![r] = "dispatch"]
             /\ UNCHANGED limitCalls
     ELSE /\ limitCalls' = [limitCalls EXCEPT ![r] = Append(@, key[r][1])]
          /\ pc' = [pc EXCEPT ![r] = "awaitLimit"]
          /\ UNCHANGED <<answer, result>>
  /\ UNCHANGED <<env, wasmWorkerInstance, scheduledEvents, scheduledCalls,
                 req, cloned, bodyUsed, key,
                 backendCalls, response, log>>

\* LimitCall behind a lock that is held while any limiter call is pending
LimitCallSerial(r) ==
  /\ pc[r] = "limit"
  /\ \A c \in Reqs : pc[c] # "awaitLimit"
  /\ limitCalls' = [limitCalls EXCEPT ![r] = Append(@, key[r][1])]
  /\ pc' = [pc EXCEPT ![r] = "awaitLimit"]
  /\ UNCHANGED <<env, wasmWorkerInstance, scheduledEvents, scheduledCalls,
                 req, cloned, bodyUsed, key, answer,
                 result, backendCalls, response, log>>

\* checkRateLimit resumes with the key and calls limiter.limit({ key })
LimitCall(r) ==
  /\ pc[r] = "limit"
  /\ limitCalls' = [limitCalls EXCEPT ![r] = Append(@, key[r][1])]
  /\ pc' = [pc EXCEPT ![r] = "awaitLimit"]
  /\ UNCHANGED <<env, wasmWorkerInstance, scheduledEvents, scheduledCalls,
                 req, cloned, bodyUsed, key, answer,
                 result, backendCalls, response, log>>

\* LimitReturn that calls the limiter once more after a failed call
LimitReturnRetry(r, o) ==
  /\ pc[r] = "awaitLimit"
  /\ answer' = [answer EXCEPT ![r] = <<o>>]
  /\ IF DestructureThrows(o)
     THEN /\ log' = [log EXCEPT ![r] =
                       Append(@, Entry("error", "limit failed", <<>>, ""))]
          /\ pc' = [pc EXCEPT ![r] =
                      IF Len(limitCalls[r]) < 2 THEN "limit" ELSE "dispatch"]
          /\ UNCHANGED result
     ELSE /\ result' = [result EXCEPT ![r] =
                          <<Decision(NotSuccess(o), key[r][1], req[r].path)>>]
          /\ pc' = [pc EXCEPT ![r] = "dispatch"]
          /\ UNCHANGED log
  /\ UNCHANGED <<env, wasmWorkerInstance, scheduledEvents, scheduledCalls,
                 req, cloned, bodyUsed, key,
                 limitCalls, backendCalls, response>>

\* the limiter call settles with outcome o and checkRateLimit returns
LimitReturn(r, o) ==
  /\ pc[r] = "awaitLimit"
  /\ answer' = [answer EXCEPT ![r] = <<o>>]
  /\ IF DestructureThrows(o)
     THEN /\ log' = [log EXCEPT ![r] =
                       Append(@, Entry("error", "limit failed", <<>>, ""))]
          /\ UNCHANGED result
     ELSE /\ result' = [result EXCEPT ![r] =
                          <<Decision(NotSuccess(o), key[r][1], req[r].path)>>]
          /\ UNCHANGED log
  /\ pc' = [pc EXCEPT ![r] = "dispatch"]
  /\ UNCHANGED <<env, wasmWorkerInstance, scheduledEvents, scheduledCalls,
                 req, cloned, bodyUsed, key,
                 limitCalls, backendCalls, response>>

\* fetch() resumes with rateLimitResult: the 429, or getWasmWorker and
\* wasmWorker.fetch(request)
Dispatch(r) ==
  /\ pc[r] = "dispatch"
  /\ IF OptLimited(result[r])
     THEN LET x == createRateLimitResponse(result[r][1].key,
                                           result[r][1].endpoint)
          IN /\ log' = [log EXCEPT ![r] = @ \o x.entries]
             /\ response' = [response EXCEPT ![r] = <<x.response>>]
             /\ pc' = [pc EXCEPT ![r] = "done"]
             /\ UNCHANGED backendCalls
     ELSE /\ backendCalls' = [backendCalls EXCEPT ![r] =
                                Append(@, [request |-> r,
                                           object |-> "original",
                                           bodyUsed |-> bodyUsed[r].original,
                                           env |-> env])]
          /\ pc' = [pc EXCEPT ![r] = "backend"]
          /\ UNCHANGED <<log, response>>
  /\ UNCHANGED <<env, wasmWorkerInstance, scheduledEvents, scheduledCalls,
                 req, cloned, bodyUsed, key,
                 limitCalls, answer, result>>

\* the backend handler answers and fetch() returns its response
BackendReturn(r, resp) ==
  /\ pc[r] = "backend"
  /\ response' = [response EXCEPT ![r] = <<resp>>]
  /\ pc' = [pc EXCEPT ![r] = "done"]
  /\ UNCHANGED <<env, wasmWorkerInstance, scheduledEvents, scheduledCalls,
                 req, cloned, bodyUsed, key,
                 limitCalls, answer, result, backendCalls, log>>

\* the cron triggers of the worker
Events == {"cron"}

\* scheduled() that forwards only while the limiter is bound
scheduledGuarded(e) ==
  /\ Len(scheduledEvents) < MaxScheduled
  /\ scheduledEvents' = Append(scheduledEvents, e)
  /\ scheduledCalls' = IF Bound(env, "LOGIN_RATE_LIMITER")
                       THEN Append(scheduledCalls, [event |-> e, env |-> env])
                       ELSE scheduledCalls
  /\ UNCHANGED <<env, wasmWorkerInstance, pc, req, cloned, bodyUsed, key,
                 limitCalls, answer, result, backendCalls, response, log>>

\* scheduled(event, env, ctx): getWasmWorker and wasmWorker.scheduled(event)
scheduled(e) ==
  /\ Len(scheduledEvents) < MaxScheduled
  /\ scheduledEvents' = Append(scheduledEvents, e)
  /\ scheduledCalls' = Append(scheduledCalls, [event |-> e, env |-> env])
  /\ UNCHANGED <<env, wasmWorkerInstance, pc, req, cloned, bodyUsed, key,
                 limitCalls, answer, result, backendCalls, response, log>>

\* requests from SampleRequests, handled side by side
Next ==
  \E r \in Reqs :
    \/ fetch(r, SampleRequests)
    \/ BodyRead(r)
    \/ LimitCall(r)
    \/ \E o \in LimitOutcomes : LimitReturn(r, o)
    \/ Dispatch(r)
    \/ \E resp \in BackendResponses : BackendReturn(r, resp)

Spec == Init /\ [][Next]_vars

\* one request, drawn from AllRequests
NextOne ==
  \/ fetch(1, AllRequests)
  \/ BodyRead(1)
  \/ LimitCall(1)
  \/ \E o \in LimitOutcomes : LimitReturn(1, o)
  \/ Dispatch(1)
  \/ \E resp \in BackendResponses : BackendReturn(1, resp)

SpecOne == Init /\ [][NextOne]_vars

\* one request from SampleRequests, and scheduled events in between
NextScheduled ==
  \/ fetch(1, SampleRequests)
  \/ BodyRead(1)
  \/ LimitCall(1)
  \/ \E o \in LimitOutcomes : LimitReturn(1, o)
  \/ Dispatch(1)
  \/ \E resp \in BackendResponses : BackendReturn(1, resp)
  \/ \E e \in Events : scheduled(e)

SpecScheduled == Init /\ [][NextScheduled]_vars

\* the continuations of request r that the event loop runs once they are
\* ready, and the body read and the backend answering (pc[r] enables at
\* most one of them at a time)
Continue(r) ==
  \/ BodyRead(r)
  \/ LimitCall(r)
  \/ Dispatch(r)
  \/ \E resp \in BackendResponses : BackendReturn(r, resp)

\* the limiter answers the call of request r
Answered(r) == \E o \in LimitOutcomes : LimitReturn(r, o)

\* the requests of the specifications with fairness: a login, a
\* registration, an unprotected path
FairRequests ==
  {Request(TokenPath, <<<<JsonType>>>>, <<<<"1", ".", "2">>>>,
           Body("json", "object", Str(<<"A", "@">>), Undef)),
   Request(RegisterPath, <<>>, <<<<"1", ".", "2">>>>,
           Body("json", "object", Str(<<"A", "@">>), Undef)),
   Request("/api/sync", <<<<JsonType>>>>, <<<<"1", ".", "2">>>>,
           Body("json", "object", Str(<<"A", "@">>), Undef))}

\* requests from FairRequests, handled side by side
NextFair ==
  \E r \in Reqs :
    \/ fetch(r, FairRequests)
    \/ BodyRead(r)
    \/ LimitCall(r)
    \/ \E o \in LimitOutcomes : LimitReturn(r, o)
    \/ Dispatch(r)
    \/ \E resp \in BackendResponses : BackendReturn(r, resp)

\* body reads, limiter calls and the backend eventually respond
SpecFair ==
  /\ Init /\ [][NextFair]_vars
  /\ \A r \in Reqs : WF_vars(Continue(r) \/ Answered(r))

\* the limiter may never answer the call of request 1
SpecHang ==
  /\ Init /\ [][NextFair]_vars
  /\ WF_vars(Continue(1))
  /\ \A r \in Reqs \ {1} : WF_vars(Continue(r) \/ Answered(r))

TypeOK ==
  /\ env \in Envs
  /\ \A r \in Reqs :
       /\ pc[r] \in {"idle", "readBody", "limit", "awaitLimit", "dispatch",
                     "backend", "done"}
       /\ Len(limitCalls[r]) <= 1
       /\ Len(backendCalls[r]) <= 1

\* ------------------------------------------------------------- properties
\* the policy table of the specification, section 6
InPolicyTable(p) ==
  p \in {"/identity/connect/token", "/api/accounts/register",
         "/api/accounts/prelogin"}

BindingPresent == "LOGIN_RATE_LIMITER" \in env

\* checkRateLimit has returned to fetch()
Decided(r) == pc[r] \in {"dispatch", "backend", "done"}

\* the request was handed to the backend handler, once, as it arrived
Forwarded(r) ==
  /\ Len(backendCalls[r]) = 1
  /\ backendCalls[r][1].request = r
  /\ backendCalls[r][1].object = "original"

Rejected429(r) == response[r] = <<RateLimitResponse>>

HasEntry(r, level, msg) ==
  \E i \in 1..Len(log[r]) : log[r][i].level = level /\ log[r][i].msg = msg

\* C1: a request to a protected path, with the binding present, whose limit
\* call answers success = false is never handed to the backend, and fetch
\* returns the 429 rejection for it.
C1_LimitedNeverReachesBackend ==
  \A r \in Reqs :
    (/\ InPolicyTable(req[r].path)
     /\ BindingPresent
     /\ answer[r] = <<ResolvesObject(<<FALSE>>)>>)
    => /\ backendCalls[r] = <<>>
       /\ pc[r] \in {"dispatch", "done"}
       /\ pc[r] = "done" => Rejected429(r)

C1_Witness ==
  \E r \in Reqs :
    /\ InPolicyTable(req[r].path)
    /\ BindingPresent
    /\ answer[r] = <<ResolvesObject(<<FALSE>>)>>
    /\ pc[r] = "done"
    /\ Rejected429(r)

\* C2: for a path that is not exactly one of the three policy paths,
\* checkRateLimit returns null without cloning or reading the body, without
\* extracting a key and without a limiter call, and fetch hands the request
\* to the backend and returns the backend's response.
C2_UnprotectedPathBypasses ==
  \A r \in Reqs :
    (pc[r] # "idle" /\ ~InPolicyTable(req[r].path))
    => /\ Decided(r)
       /\ result[r] = <<>>
       /\ ~cloned[r]
       /\ ~bodyUsed[r].original /\ ~bodyUsed[r].clone
       /\ key[r] = <<>>
       /\ limitCalls[r] = <<>>
       /\ answer[r] = <<>>
       /\ log[r] = <<>>
       /\ pc[r] \in {"backend", "done"} => Forwarded(r)
       /\ pc[r] = "done" => response[r][1] \in BackendResponses

C2_Witness ==
  \E r \in Reqs :
    /\ req[r].path = "/Identity/Connect/Token"
    /\ BindingPresent
    /\ pc[r] = "done"
    /\ Forwarded(r)
    /\ response[r][1] \in BackendResponses

\* C3: when the limit call of a request to a protected path rejects, or
\* resolves with undefined so that no result can be read from it, the error
\* is logged, checkRateLimit returns null, no 429 is produced, and the
\* request is handed to the backend, whose response fetch returns.
C3_LimiterFailureFailsOpen ==
  \A r \in Reqs :
    (/\ InPolicyTable(req[r].path)
     /\ BindingPresent
     /\ answer[r] \in {<<Rejects>>, <<ResolvesUndefined>>})
    => /\ Decided(r)
       /\ HasEntry(r, "error", "limit failed")
       /\ result[r] = <<>>
       /\ ~Rejected429(r)
       /\ pc[r] \in {"backend", "done"} => Forwarded(r)
       /\ pc[r] = "done" => response[r][1] \in BackendResponses

C3_Witness ==
  \E r \in Reqs :
    /\ InPolicyTable(req[r].path)
    /\ answer[r] = <<ResolvesUndefined>>
    /\ pc[r] = "done"
    /\ Forwarded(r)
    /\ response[r][1] \in BackendResponses

\* C4: a request to a protected path while LOGIN_RATE_LIMITER is not bound
\* is not limited: exactly one warning is logged, no key is extracted, the
\* limiter is not called, no 429 is produced and the request is handed to
\* the backend.
C4_MissingBindingFailsOpen ==
  \A r \in Reqs :
    (pc[r] # "idle" /\ InPolicyTable(req[r].path) /\ ~BindingPresent)
    => /\ Decided(r)
       /\ log[r] = <<Entry("warn", "binding not found", <<>>, "")>>
       /\ ~OptLimited(result[r])
       /\ limitCalls[r] = <<>>
       /\ answer[r] = <<>>
       /\ ~Rejected429(r)
       /\ pc[r] \in {"backend", "done"} => Forwarded(r)
       /\ pc[r] = "done" => response[r][1] \in BackendResponses

C4_Witness ==
  \E r \in Reqs :
    /\ req[r].path = "/api/accounts/register"
    /\ req[r].headers.ip = <<<<"1", ".", "2">>>>
    /\ ~BindingPresent
    /\ pc[r] = "done"
    /\ Forwarded(r)

\* C5: fetch returns the 429 rejection only when the request's limit call
\* completed and reported success = false; after success = true, a thrown
\* error, a missing binding or a result without a success field the request
\* is forwarded and no 429 is produced.
C5_RejectionOnlyOnReportedExhaustion ==
  \A r \in Reqs :
    /\ Rejected429(r) => answer[r] = <<ResolvesObject(<<FALSE>>)>>
    /\ (pc[r] = "done" /\ answer[r] # <<ResolvesObject(<<FALSE>>)>>)
       => Forwarded(r) /\ response[r][1] \in BackendResponses

\* what the code is claimed to do with e-mail values
IsEmailKey(k) == Len(k) >= 6 /\ SubSeq(k, 1, 6) = <<"e", "m", "a", "i", "l", ":">>
ValueOf(k) == SubSeq(k, 7, Len(k))
HasNoUpperCase(v) == \A i \in 1..Len(v) : v[i] # "A"
SameIgnoringCase(v, w) ==
  /\ Len(v) = Len(w)
  /\ \A i \in 1..Len(v) : v[i] = w[i] \/ {v[i], w[i]} = {"A", "a"}

HasToken(r, token) ==
  \E i \in 1..Len(GetOr(req[r], "ct", <<>>)) : GetOr(req[r], "ct", <<>>)[i] = token

\* the field C6 names: username of a form body; of a JSON object the email
\* field if it is there, otherwise the username field
NamedField(r) ==
  LET b == req[r].body
  IN IF HasToken(r, "application/x-www-form-urlencoded")
     THEN IF b.syntax = "form" THEN b.username ELSE Undef
     ELSE IF HasToken(r, "application/json") /\ b.syntax = "json"
             /\ b.shape = "object"
     THEN IF b.email.t # "undefined" THEN b.email ELSE b.username
     ELSE Undef

\* C6: on /identity/connect/token, when the field C6 names holds a non-empty
\* string, the extracted key is "email:" followed by that string in lower
\* case (same letters, no upper-case letter left).
C6_EmailKeyIsLowerCasedField ==
  \A r \in Reqs :
    (/\ req[r].path = "/identity/connect/token"
     /\ key[r] # <<>>
     /\ NamedField(r).t = "string"
     /\ NamedField(r).s # <<>>)
    => /\ IsEmailKey(key[r][1])
       /\ HasNoUpperCase(ValueOf(key[r][1]))
       /\ SameIgnoringCase(ValueOf(key[r][1]), NamedField(r).s)

C6_Witness ==
  \E r \in Reqs :
    /\ req[r].path = "/identity/connect/token"
    /\ req[r].body.syntax = "json"
    /\ req[r].body.email = Str(<<"A", "@">>)
    /\ req[r].body.username = Str(<<"@">>)
    /\ key[r] = <<(<<"e", "m", "a", "i", "l", ":", "a", "@">>)>>

\* C7: on /identity/connect/token, whenever extraction does not yield an
\* email key, the key is the IP key (ip:<client IP header> or ip:unknown)
\* and a warning about the failed extraction has been logged.
C7_EveryExtractionFailureWarns ==
  \A r \in Reqs :
    (/\ req[r].path = "/identity/connect/token"
     /\ key[r] # <<>>
     /\ ~IsEmailKey(key[r][1]))
    => /\ key[r][1] \in {<<"i", "p", ":", "1", ".", "2">>,
                         <<"i", "p", ":", "u", "n", "k", "n", "o", "w", "n">>}
       /\ HasEntry(r, "warn", "extract failed")

\* C8: the original request is never consumed: a body is only ever read
\* from a clone, and every request handed to the backend is the original
\* request object of that invocation with its body unread.
C8_OriginalRequestUnconsumed ==
  \A r \in Reqs :
    /\ ~bodyUsed[r].original
    /\ bodyUsed[r].clone => cloned[r]
    /\ \A i \in 1..Len(backendCalls[r]) :
         /\ backendCalls[r][i].request = r
         /\ backendCalls[r][i].object = "original"
         /\ ~backendCalls[r][i].bodyUsed

C8_Witness ==
  \E r \in Reqs :
    /\ cloned[r]
    /\ bodyUsed[r].clone
    /\ pc[r] = "done"
    /\ Forwarded(r)
    /\ ~backendCalls[r][1].bodyUsed

\* C9 as stated: once checkRateLimit has returned, its result is absent
\* (null) if and only if the request path has no policy entry.
C9_AbsentIffNoPolicyEntry ==
  \A r \in Reqs :
    Decided(r) => (result[r] = <<>> <=> ~InPolicyTable(req[r].path))

LimiterCallThrew(r) == answer[r] \in {<<Rejects>>, <<ResolvesUndefined>>}

\* C9 as amended: once checkRateLimit has returned, its result is absent
\* (null) exactly when the path has no policy entry, or the limiter binding
\* is missing, or the limiter call threw; otherwise it is a decision whose
\* limited is the negation of the success that was read, whose key is the
\* extracted key that was passed to the limiter, and whose endpoint is the
\* request path.
C9_AbsentOrDecision ==
  \A r \in Reqs :
    Decided(r) =>
      /\ result[r] = <<>> <=>
           (\/ ~InPolicyTable(req[r].path)
            \/ ~BindingPresent
            \/ LimiterCallThrew(r))
      /\ result[r] # <<>> =>
           /\ result[r][1].limited = (answer[r][1].success # <<TRUE>>)
           /\ result[r][1].key = key[r][1]
           /\ limitCalls[r] = <<key[r][1]>>
           /\ result[r][1].endpoint = req[r].path

C9_Witness ==
  \E r \in Reqs :
    /\ Decided(r)
    /\ req[r].path = "/api/accounts/prelogin"
    /\ result[r] # <<>>
    /\ ~result[r][1].limited
    /\ result[r][1].key = <<"i", "p", ":", "1", ".", "2">>

Called(r) == pc[r] \in {"awaitLimit", "dispatch", "backend", "done"}

C13_RejectionResponseIsFixed ==
  \A r \in Reqs :
    (pc[r] = "done" /\ backendCalls[r] = <<>>) =>
      /\ response[r][1].status = 429
      /\ response[r][1].retryAfter = "60"
      /\ response[r][1].contentType = "application/json"
      /\ response[r][1].body =
           <<"error", "too_many_requests",
             "error_description", "Too many requests. Please try again later.",
             "ErrorModel",
             "Message", "Too many requests. Please try again later.",
             "Object", "error">>

C13_Witness ==
  \E r1, r2 \in Reqs :
    /\ pc[r1] = "done" /\ pc[r2] = "done"
    /\ backendCalls[r1] = <<>> /\ backendCalls[r2] = <<>>
    /\ result[r1][1].key # result[r2][1].key
    /\ result[r1][1].endpoint # result[r2][1].endpoint
    /\ response[r1] = response[r2]
    /\ response[r1][1].status = 429

RejectionEntries(r) ==
  {i \in 1..Len(log[r]) : log[r][i].msg = "rate limit exceeded"}

\* C14: a request answered with the 429 has exactly one rejection entry in
\* the log, at warning level, holding the key that was passed to the limiter
\* and the policy path the request matched; a request that was not answered
\* with the 429 has no rejection entry.
C14_RejectionLoggedOnce ==
  \A r \in Reqs :
    /\ (pc[r] = "done" /\ backendCalls[r] = <<>>) =>
         /\ Cardinality(RejectionEntries(r)) = 1
         /\ \A i \in RejectionEntries(r) :
              /\ log[r][i].level = "warn"
              /\ limitCalls[r] = <<log[r][i].key>>
              /\ log[r][i].endpoint = req[r].path
              /\ InPolicyTable(log[r][i].endpoint)
    /\ ~(pc[r] = "done" /\ backendCalls[r] = <<>>) => RejectionEntries(r) = {}

C14_Witness ==
  \E r1, r2 \in Reqs :
    /\ pc[r1] = "done" /\ pc[r2] = "done"
    /\ backendCalls[r1] = <<>>
    /\ log[r1] = <<Entry("warn", "rate limit exceeded",
                         <<"e", "m", "a", "i", "l", ":", "a", "@">>,
                         "/identity/connect/token")>>
    /\ Forwarded(r2)
    /\ limitCalls[r2] # <<>>
    /\ RejectionEntries(r2) = {}

IsIpKey(k) == Len(k) >= 3 /\ SubSeq(k, 1, 3) = <<"i", "p", ":">>

NoClientIp(r) == req[r].headers.ip \in {<<>>, <<<<>>>>}

\* "ip:" and the client IP header, or ip:unknown without one
ClaimedIpKey(r) ==
  IF NoClientIp(r) THEN <<"i", "p", ":", "u", "n", "k", "n", "o", "w", "n">>
  ELSE <<"i", "p", ":">> \o req[r].headers.ip[1]

\* C15: every extracted key is "email:" followed by a non-empty value
\* without upper-case letters, or "ip:" followed by a non-empty value; an IP
\* key of a request without (or with an empty) client IP header is exactly
\* ip:unknown; the bare key "email:" is never produced.
C15_KeyIsWellFormed ==
  \A r \in Reqs :
    key[r] # <<>> =>
      /\ \/ /\ IsEmailKey(key[r][1])
            /\ Len(key[r][1]) > 6
            /\ HasNoUpperCase(ValueOf(key[r][1]))
         \/ /\ IsIpKey(key[r][1])
            /\ Len(key[r][1]) > 3
      /\ (IsIpKey(key[r][1]) /\ NoClientIp(r)) =>
           key[r][1] = <<"i", "p", ":", "u", "n", "k", "n", "o", "w", "n">>
      /\ key[r][1] # <<"e", "m", "a", "i", "l", ":">>

C15_Witness ==
  \E r \in Reqs :
    /\ req[r].path = "/identity/connect/token"
    /\ req[r].headers.ct = <<<<"application/json">>>>
    /\ req[r].headers.ip = <<<<>>>>
    /\ req[r].body.syntax = "json"
    /\ req[r].body.shape = "object"
    /\ req[r].body.email = Str(<<>>)
    /\ req[r].body.username = Undef
    /\ bodyUsed[r].clone
    /\ key[r] = <<(<<"i", "p", ":", "u", "n", "k", "n", "o", "w", "n">>)>>

\* C16: on /api/accounts/register and /api/accounts/prelogin the body is
\* never cloned or read and the key, also the one passed to the limiter, is
\* the IP key whatever body and content-type say; an email key only arises
\* on /identity/connect/token; and on all three paths the request goes on to
\* key extraction exactly when LOGIN_RATE_LIMITER is bound.
C16_IpEndpointsIgnoreBody ==
  \A r \in Reqs :
    pc[r] # "idle" =>
      /\ req[r].path \in {"/api/accounts/register", "/api/accounts/prelogin"} =>
           /\ ~cloned[r]
           /\ ~bodyUsed[r].original /\ ~bodyUsed[r].clone
           /\ key[r] # <<>> => key[r] = <<ClaimedIpKey(r)>>
           /\ limitCalls[r] # <<>> => limitCalls[r] = <<ClaimedIpKey(r)>>
      /\ (key[r] # <<>> /\ IsEmailKey(key[r][1])) =>
           req[r].path = "/identity/connect/token"
      /\ InPolicyTable(req[r].path) =>
           /\ BindingPresent <=> ~HasEntry(r, "warn", "binding not found")
           /\ BindingPresent <=> (key[r] # <<>> \/ pc[r] = "readBody")

C16_Witness ==
  \E r \in Reqs :
    /\ req[r].path = "/api/accounts/register"
    /\ req[r].headers.ct = <<<<"application/json">>>>
    /\ req[r].body.syntax = "json"
    /\ req[r].body.email = Str(<<"A", "@">>)
    /\ limitCalls[r] = <<(<<"i", "p", ":", "1", ".", "2">>)>>
    /\ pc[r] = "done"

NeedsBodyRead(r) ==
  /\ req[r].path = "/identity/connect/token"
  /\ \/ HasToken(r, "application/x-www-form-urlencoded")
     \/ HasToken(r, "application/json")

\* C18: with the binding absent, a request to a protected path is never
\* cloned or read, gets no key and no extraction warning; with it present,
\* a limiter call has been made only after the key was extracted (and the
\* body read that the extraction needs has finished), with that key, and
\* the backend has been called only after the limiter answered.
C18_BindingThenKeyThenLimiter ==
  \A r \in Reqs :
    (pc[r] # "idle" /\ InPolicyTable(req[r].path)) =>
      /\ ~BindingPresent =>
           /\ ~cloned[r]
           /\ ~bodyUsed[r].original /\ ~bodyUsed[r].clone
           /\ key[r] = <<>>
           /\ ~HasEntry(r, "warn", "extract failed")
      /\ BindingPresent =>
           /\ limitCalls[r] # <<>> =>
                /\ key[r] # <<>>
                /\ limitCalls[r] = key[r]
                /\ NeedsBodyRead(r) => bodyUsed[r].clone
           /\ key[r] = <<>> => (limitCalls[r] = <<>> /\ answer[r] = <<>>)
           /\ answer[r] = <<>> => backendCalls[r] = <<>>
           /\ backendCalls[r] # <<>> => limitCalls[r] # <<>>

C18_Witness ==
  \E r \in Reqs :
    /\ NeedsBodyRead(r)
    /\ BindingPresent
    /\ bodyUsed[r].clone
    /\ limitCalls[r] = key[r]
    /\ answer[r] # <<>>
    /\ Forwarded(r)

\* C12: every scheduled event is handed to the backend's scheduled
\* operation, in order and with the environment, whether or not the limiter
\* is bound, and handling one performs no policy lookup, key extraction or
\* limiter call: it changes nothing of any request.
C12_ScheduledForwardedDirectly ==
  /\ [](/\ Len(scheduledCalls) = Len(scheduledEvents)
        /\ \A i \in 1..Len(scheduledEvents) :
             scheduledCalls[i] = [event |-> scheduledEvents[i], env |-> env])
  /\ [][scheduledEvents' # scheduledEvents =>
          UNCHANGED <<pc, req, cloned, bodyUsed, key, limitCalls, answer,
                      result, backendCalls, response, log>>]_vars

C12_Witness ==
  /\ ~BindingPresent
  /\ Len(scheduledCalls) = 2
  /\ \E r \in Reqs : pc[r] = "dispatch" /\ InPolicyTable(req[r].path)

\* what handling request r has produced, apart from the backend's answer
Outcome11(r) ==
  <<key[r], limitCalls[r], result[r], log[r], Len(backendCalls[r]),
    Rejected429(r), cloned[r], bodyUsed[r]>>

PerRequest(r) ==
  <<pc[r], req[r], cloned[r], bodyUsed[r], key[r], limitCalls[r], answer[r],
    result[r], backendCalls[r], response[r], log[r]>>

\* C11: with requests interleaving, two finished requests with the same
\* path, headers and body and the same limiter answer have the same outcome;
\* a step of one request changes nothing of another; and while the limiter
\* never answers request 1, every other request that has started still
\* finishes, with the 429 or the backend's response.
C11_RequestsAreIndependent ==
  /\ [](\A r1, r2 \in Reqs :
          (/\ pc[r1] = "done" /\ pc[r2] = "done"
           /\ req[r1] = req[r2]
           /\ answer[r1] = answer[r2])
          => Outcome11(r1) = Outcome11(r2))
  /\ [][\A r, s \in Reqs :
          (r # s /\ pc'[r] # pc[r]) => PerRequest(s)' = PerRequest(s)]_vars
  /\ \A s \in Reqs \ {1} :
       (pc[s] # "idle") ~>
         (/\ pc[s] = "done"
          /\ Rejected429(s) \/ response[s][1] \in BackendResponses)

C11_Witness ==
  \E s \in Reqs \ {1} :
    /\ pc[1] = "awaitLimit"
    /\ pc[s] = "done"
    /\ answer[s] # <<>>
    /\ key[s] = key[1]
    /\ Rejected429(s)

\* C17: when body reads, limiter calls and the backend eventually respond,
\* every fetch invocation that has started finishes; at no time has it made
\* more than one limiter call or more than one backend call; it has a
\* response only when finished, and then either the 429 without any backend
\* call or the backend's response after exactly one backend call.
C17_FetchCompletesWithOneOutcome ==
  /\ \A r \in Reqs : (pc[r] # "idle") ~> (pc[r] = "done")
  /\ [](\A r \in Reqs :
          /\ Len(limitCalls[r]) <= 1
          /\ Len(backendCalls[r]) <= 1
          /\ pc[r] # "done" => response[r] = <<>>
          /\ pc[r] = "done" =>
               \/ Rejected429(r) /\ backendCalls[r] = <<>>
               \/ /\ response[r][1] \in BackendResponses
                  /\ Len(backendCalls[r]) = 1)

C17_Witness ==
  \E r1, r2 \in Reqs :
    /\ pc[r1] = "done" /\ pc[r2] = "done"
    /\ Rejected429(r1) /\ backendCalls[r1] = <<>> /\ Len(limitCalls[r1]) = 1
    /\ response[r2][1] \in BackendResponses /\ Len(limitCalls[r2]) = 1
    /\ Len(backendCalls[r2]) = 1

====
